---- MODULE Spec2Model ----
(***************************************************************************)
(* State machine of the RandomChoicePicker component                       *)
(* (src/src/components/RandomChoicePicker.tsx).                            *)
(*                                                                         *)
(* The component state is the four useState cells (options, inputValue,    *)
(* selectedOption, isSpinning) plus the interval timers started by         *)
(* pickRandom.  Every timer keeps the `options` array of the render in     *)
(* which pickRandom was invoked (a closure) and its own currentSpin        *)
(* counter.  Strings are sequences of one-character strings, so that trim  *)
(* is computed and not assumed.  Array indices are 0-based as in the       *)
(* source; the model adds 1 when it indexes a TLA+ sequence.               *)
(***************************************************************************)
EXTENDS Integers, Sequences, FiniteSets, TLC

VARIABLES options, inputValue, selectedOption, isSpinning, timers, toasts, lastCall

vars == <<options, inputValue, selectedOption, isSpinning, timers, toasts, lastCall>>

(***************************************************************************)
(* Bounds of the model                                                     *)
(***************************************************************************)
\* the largest number of blanks typed before and after a text
MaxPad == 1

\* the letters the user types
Letters == {"a", "b", "c"}

(***************************************************************************)
(* Values                                                                  *)
(***************************************************************************)
\* JavaScript null and undefined; no typed string equals them, since a typed
\* string is made of one-character elements
Null == <<"null">>
Undefined == <<"undefined">>

Space == " "

RECURSIVE Spaces(_)
Spaces(n) == IF n = 0 THEN <<>> ELSE <<Space>> \o Spaces(n - 1)

\* the texts the user may leave in the input field: blank ones, each letter
\* alone, and the first letter with blanks before and after it
Padded == "a"

Inputs ==
    {Spaces(n) : n \in 0..MaxPad}
    \cup {<<c>> : c \in Letters}
    \cup {Spaces(l) \o <<Padded>> \o Spaces(r) : l \in 0..MaxPad, r \in 0..MaxPad}

(***************************************************************************)
(* String.prototype.trim and Array.prototype.includes / filter             *)
(***************************************************************************)
RECURSIVE trimStart(_)
trimStart(s) ==
    IF s = <<>> THEN <<>>
    ELSE IF Head(s) = Space THEN trimStart(Tail(s))
    ELSE s

RECURSIVE trimEnd(_)
trimEnd(s) ==
    IF s = <<>> THEN <<>>
    ELSE IF s[Len(s)] = Space THEN trimEnd(SubSeq(s, 1, Len(s) - 1))
    ELSE s

\* trim that forgets the blanks at the end
trimLeadingOnly(s) == trimStart(s)

trim(s) == trimEnd(trimStart(s))

includes(arr, x) == \E i \in 1..Len(arr) : arr[i] = x

\* filter that drops the last entry whatever the index
filterLast(arr, index) == IF arr = <<>> THEN <<>> ELSE SubSeq(arr, 1, Len(arr) - 1)

\* arr.filter((_, i) => i !== index), index 0-based
RECURSIVE filterNotIndex(_, _)
filterNotIndex(arr, index) ==
    IF arr = <<>> THEN <<>>
    ELSE IF index = 0 THEN Tail(arr)
    ELSE <<Head(arr)>> \o filterNotIndex(Tail(arr), index - 1)

\* arr[index], index 0-based: undefined outside the array
at(arr, index) == IF index >= 0 /\ index < Len(arr) THEN arr[index + 1] ELSE Undefined

(***************************************************************************)
(* Notifications: toast({title, description, variant})                     *)
(* `names` is the value interpolated into the description, Null when the   *)
(* description is a fixed text.  `toasts` holds the notifications fired by *)
(* the most recent handler or timer callback.                              *)
(***************************************************************************)
Toast(title, names, variant) == [title |-> title, names |-> names, variant |-> variant]

ToastAdded(v) == Toast("Option added!", v, "default")
ToastDuplicate == Toast("Duplicate option", Null, "destructive")
ToastRemoved(v) == Toast("Option removed", v, "default")
ToastNoOptions == Toast("No options available", Null, "destructive")
ToastResult(v) == Toast("Choice selected!", v, "default")
ToastCleared == Toast("All cleared!", Null, "default")

\* the handler or callback that ran last, with its argument and the values
\* of Math.floor(Math.random() * options.length) it drew, in order
Call(op, index) == [op |-> op, index |-> index, draws |-> <<>>]

CallDraws(op, draws) == [op |-> op, index |-> 0, draws |-> draws]

(***************************************************************************)
(* Initial state: useState initial values, no timer                        *)
(***************************************************************************)
Init ==
    /\ options = <<>>
    /\ inputValue = <<>>
    /\ selectedOption = Null
    /\ isSpinning = FALSE
    /\ timers = <<>>
    /\ toasts = <<>>
    /\ lastCall = Call("mount", 0)

(***************************************************************************)
(* Handlers                                                                *)
(***************************************************************************)
\* onChange of the input: setInputValue(e.target.value)
setInputValue(s) ==
    /\ inputValue' = s
    /\ toasts' = <<>>
    /\ lastCall' = Call("setInputValue", 0)
    /\ UNCHANGED <<options, selectedOption, isSpinning, timers>>

\* addOption that clears the input text on a duplicate too
addOptionClearsInputOnDuplicate ==
    /\ lastCall' = Call("addOption", 0)
    /\ IF trim(inputValue) # <<>> /\ ~includes(options, trim(inputValue))
       THEN /\ options' = Append(options, trim(inputValue))
            /\ inputValue' = <<>>
            /\ toasts' = <<ToastAdded(trim(inputValue))>>
       ELSE IF includes(options, trim(inputValue))
       THEN /\ toasts' = <<ToastDuplicate>>
            /\ inputValue' = <<>>
            /\ UNCHANGED options
       ELSE /\ toasts' = <<>>
            /\ UNCHANGED <<options, inputValue>>
    /\ UNCHANGED <<selectedOption, isSpinning, timers>>

\* addOption whose second branch has lost its condition
addOptionElseDuplicate ==
    /\ lastCall' = Call("addOption", 0)
    /\ IF trim(inputValue) # <<>> /\ ~includes(options, trim(inputValue))
       THEN /\ options' = Append(options, trim(inputValue))
            /\ inputValue' = <<>>
            /\ toasts' = <<ToastAdded(trim(inputValue))>>
       ELSE /\ toasts' = <<ToastDuplicate>>
            /\ UNCHANGED <<options, inputValue>>
    /\ UNCHANGED <<selectedOption, isSpinning, timers>>

\* addOption that puts the new entry in front
addOptionPrepends ==
    /\ lastCall' = Call("addOption", 0)
    /\ IF trim(inputValue) # <<>> /\ ~includes(options, trim(inputValue))
       THEN /\ options' = <<trim(inputValue)>> \o options
            /\ inputValue' = <<>>
            /\ toasts' = <<ToastAdded(trim(inputValue))>>
       ELSE IF includes(options, trim(inputValue))
       THEN /\ toasts' = <<ToastDuplicate>>
            /\ UNCHANGED <<options, inputValue>>
       ELSE /\ toasts' = <<>>
            /\ UNCHANGED <<options, inputValue>>
    /\ UNCHANGED <<selectedOption, isSpinning, timers>>

addOption ==
    /\ lastCall' = Call("addOption", 0)
    /\ IF trim(inputValue) # <<>> /\ ~includes(options, trim(inputValue))
       THEN /\ options' = Append(options, trim(inputValue))
            /\ inputValue' = <<>>
            /\ toasts' = <<ToastAdded(trim(inputValue))>>
       ELSE IF includes(options, trim(inputValue))
       THEN /\ toasts' = <<ToastDuplicate>>
            /\ UNCHANGED <<options, inputValue>>
       ELSE /\ toasts' = <<>>
            /\ UNCHANGED <<options, inputValue>>
    /\ UNCHANGED <<selectedOption, isSpinning, timers>>

\* removeOption that clears the selection when the list becomes empty
removeOptionClearsSelection(index) ==
    LET removedOption == at(options, index) IN
    /\ lastCall' = Call("removeOption", index)
    /\ options' = filterNotIndex(options, index)
    /\ selectedOption' = IF options' = <<>> THEN Null ELSE selectedOption
    /\ toasts' = <<ToastRemoved(removedOption)>>
    /\ UNCHANGED <<inputValue, isSpinning, timers>>

\* removeOption that clears the selection when it removes the selected entry
removeOptionDeselects(index) ==
    LET removedOption == at(options, index) IN
    /\ lastCall' = Call("removeOption", index)
    /\ options' = filterNotIndex(options, index)
    /\ selectedOption' = IF removedOption = selectedOption THEN Null ELSE selectedOption
    /\ toasts' = <<ToastRemoved(removedOption)>>
    /\ UNCHANGED <<inputValue, isSpinning, timers>>

removeOption(index) ==
    LET removedOption == at(options, index) IN
    /\ lastCall' = Call("removeOption", index)
    /\ options' = filterNotIndex(options, index)
    /\ toasts' = <<ToastRemoved(removedOption)>>
    /\ UNCHANGED <<inputValue, selectedOption, isSpinning, timers>>

spinDuration == 2000
intervalTime == 100
totalSpins == spinDuration \div intervalTime

\* a timer started by setInterval: the options array its callback closes
\* over, and its currentSpin counter
Timer(opts) == [options |-> opts, currentSpin |-> 0]

\* pickRandom that resets the selection before it looks at the list
pickRandomResetsFirst ==
    /\ lastCall' = Call("pickRandom", 0)
    /\ selectedOption' = Null
    /\ IF Len(options) = 0
       THEN /\ toasts' = <<ToastNoOptions>>
            /\ UNCHANGED <<options, inputValue, isSpinning, timers>>
       ELSE /\ isSpinning' = TRUE
            /\ timers' = Append(timers, Timer(options))
            /\ toasts' = <<>>
            /\ UNCHANGED <<options, inputValue>>

\* pickRandom without setIsSpinning(true)
pickRandomNoFlag ==
    /\ lastCall' = Call("pickRandom", 0)
    /\ IF Len(options) = 0
       THEN /\ toasts' = <<ToastNoOptions>>
            /\ UNCHANGED <<options, inputValue, selectedOption, isSpinning, timers>>
       ELSE /\ selectedOption' = Null
            /\ timers' = Append(timers, Timer(options))
            /\ toasts' = <<>>
            /\ UNCHANGED <<options, inputValue, isSpinning>>

pickRandom ==
    /\ lastCall' = Call("pickRandom", 0)
    /\ IF Len(options) = 0
       THEN /\ toasts' = <<ToastNoOptions>>
            /\ UNCHANGED <<options, inputValue, selectedOption, isSpinning, timers>>
       ELSE /\ isSpinning' = TRUE
            /\ selectedOption' = Null
            /\ timers' = Append(timers, Timer(options))
            /\ toasts' = <<>>
            /\ UNCHANGED <<options, inputValue>>

\* timers without the k-th one: clearInterval(spinInterval)
clearInterval(ts, k) == SubSeq(ts, 1, k - 1) \o SubSeq(ts, k + 1, Len(ts))

\* the callback without setIsSpinning(false)
spinIntervalKeepsSpinning(k) ==
    /\ k \in 1..Len(timers)
    /\ LET t == timers[k]
           currentSpin == t.currentSpin + 1
       IN \E randomIndex \in 0..(Len(t.options) - 1), finalIndex \in 0..(Len(t.options) - 1) :
            /\ IF currentSpin >= totalSpins
               THEN /\ lastCall' = CallDraws("spinInterval", <<randomIndex, finalIndex>>)
                    /\ timers' = clearInterval(timers, k)
                    /\ selectedOption' = at(t.options, finalIndex)
                    /\ toasts' = <<ToastResult(at(t.options, finalIndex))>>
               ELSE /\ lastCall' = CallDraws("spinInterval", <<randomIndex>>)
                    /\ timers' = [timers EXCEPT ![k].currentSpin = currentSpin]
                    /\ selectedOption' = at(t.options, randomIndex)
                    /\ toasts' = <<>>
            /\ UNCHANGED <<options, inputValue, isSpinning>>

\* the callback whose notification names the draw of the tick
spinIntervalNamesTick(k) ==
    /\ k \in 1..Len(timers)
    /\ LET t == timers[k]
           currentSpin == t.currentSpin + 1
       IN \E randomIndex \in 0..(Len(t.options) - 1), finalIndex \in 0..(Len(t.options) - 1) :
            /\ IF currentSpin >= totalSpins
               THEN /\ lastCall' = CallDraws("spinInterval", <<randomIndex, finalIndex>>)
                    /\ timers' = clearInterval(timers, k)
                    /\ selectedOption' = at(t.options, finalIndex)
                    /\ isSpinning' = FALSE
                    /\ toasts' = <<ToastResult(at(t.options, randomIndex))>>
               ELSE /\ lastCall' = CallDraws("spinInterval", <<randomIndex>>)
                    /\ timers' = [timers EXCEPT ![k].currentSpin = currentSpin]
                    /\ selectedOption' = at(t.options, randomIndex)
                    /\ toasts' = <<>>
                    /\ UNCHANGED isSpinning
            /\ UNCHANGED <<options, inputValue>>

\* the callback that compares with > instead of >=
spinIntervalOneMore(k) ==
    /\ k \in 1..Len(timers)
    /\ LET t == timers[k]
           currentSpin == t.currentSpin + 1
       IN \E randomIndex \in 0..(Len(t.options) - 1), finalIndex \in 0..(Len(t.options) - 1) :
            /\ IF currentSpin > totalSpins
               THEN /\ lastCall' = CallDraws("spinInterval", <<randomIndex, finalIndex>>)
                    /\ timers' = clearInterval(timers, k)
                    /\ selectedOption' = at(t.options, finalIndex)
                    /\ isSpinning' = FALSE
                    /\ toasts' = <<ToastResult(at(t.options, finalIndex))>>
               ELSE /\ lastCall' = CallDraws("spinInterval", <<randomIndex>>)
                    /\ timers' = [timers EXCEPT ![k].currentSpin = currentSpin]
                    /\ selectedOption' = at(t.options, randomIndex)
                    /\ toasts' = <<>>
                    /\ UNCHANGED isSpinning
            /\ UNCHANGED <<options, inputValue>>

\* the callback that reads the options of the current state, not of its closure
spinIntervalReadsState(k) ==
    /\ k \in 1..Len(timers)
    /\ LET t == timers[k]
           currentSpin == t.currentSpin + 1
           last == IF Len(options) = 0 THEN 0 ELSE Len(options) - 1
       IN \E randomIndex \in 0..last, finalIndex \in 0..last :
            /\ IF currentSpin >= totalSpins
               THEN /\ lastCall' = CallDraws("spinInterval", <<randomIndex, finalIndex>>)
                    /\ timers' = clearInterval(timers, k)
                    /\ selectedOption' = at(options, finalIndex)
                    /\ isSpinning' = FALSE
                    /\ toasts' = <<ToastResult(at(options, finalIndex))>>
               ELSE /\ lastCall' = CallDraws("spinInterval", <<randomIndex>>)
                    /\ timers' = [timers EXCEPT ![k].currentSpin = currentSpin]
                    /\ selectedOption' = at(options, randomIndex)
                    /\ toasts' = <<>>
                    /\ UNCHANGED isSpinning
            /\ UNCHANGED <<options, inputValue>>

\* one firing of the callback of the k-th timer; randomIndex and finalIndex
\* are the two values of Math.floor(Math.random() * options.length)
spinInterval(k) ==
    /\ k \in 1..Len(timers)
    /\ LET t == timers[k]
           currentSpin == t.currentSpin + 1
       IN \E randomIndex \in 0..(Len(t.options) - 1), finalIndex \in 0..(Len(t.options) - 1) :
            /\ IF currentSpin >= totalSpins
               THEN /\ lastCall' = CallDraws("spinInterval", <<randomIndex, finalIndex>>)
                    /\ timers' = clearInterval(timers, k)
                    /\ selectedOption' = at(t.options, finalIndex)
                    /\ isSpinning' = FALSE
                    /\ toasts' = <<ToastResult(at(t.options, finalIndex))>>
               ELSE /\ lastCall' = CallDraws("spinInterval", <<randomIndex>>)
                    /\ timers' = [timers EXCEPT ![k].currentSpin = currentSpin]
                    /\ selectedOption' = at(t.options, randomIndex)
                    /\ toasts' = <<>>
                    /\ UNCHANGED isSpinning
            /\ UNCHANGED <<options, inputValue>>

\* clearAll without setInputValue("")
clearAllKeepsInput ==
    /\ lastCall' = Call("clearAll", 0)
    /\ options' = <<>>
    /\ selectedOption' = Null
    /\ toasts' = <<ToastCleared>>
    /\ UNCHANGED <<inputValue, isSpinning, timers>>

\* clearAll that also stops the run
clearAllStopsRun ==
    /\ lastCall' = Call("clearAll", 0)
    /\ options' = <<>>
    /\ selectedOption' = Null
    /\ inputValue' = <<>>
    /\ toasts' = <<ToastCleared>>
    /\ isSpinning' = FALSE
    /\ timers' = <<>>

clearAll ==
    /\ lastCall' = Call("clearAll", 0)
    /\ options' = <<>>
    /\ selectedOption' = Null
    /\ inputValue' = <<>>
    /\ toasts' = <<ToastCleared>>
    /\ UNCHANGED <<isSpinning, timers>>

\* onKeyPress of the input with key "Enter"
handleKeyPress == addOption

(***************************************************************************)
(* Events the rendered controls dispatch                                   *)
(***************************************************************************)
InputChange == \E s \in Inputs : setInputValue(s)

\* Add button: disabled={!inputValue.trim()}
AddClick == trim(inputValue) # <<>> /\ addOption

EnterKey == handleKeyPress

\* one remove button per rendered row
RemoveClick == \E index \in 0..(Len(options) - 1) : removeOption(index)

\* Clear All is rendered when options.length > 0
ClearAllClick == Len(options) > 0 /\ clearAll

\* Pick button: disabled={options.length === 0 || isSpinning}
\* the guard without isSpinning
PickDisabledWhenEmpty == Len(options) = 0

PickDisabled == Len(options) = 0 \/ isSpinning

PickClick == ~PickDisabled /\ pickRandom

TimerFire == \E k \in 1..Len(timers) : spinInterval(k)

Next ==
    \/ InputChange
    \/ AddClick
    \/ EnterKey
    \/ RemoveClick
    \/ ClearAllClick
    \/ PickClick
    \/ TimerFire

Spec == Init /\ [][Next]_vars

(***************************************************************************)
(* The handlers called directly, outside what the rendered controls allow: *)
(* any index for removeOption, clearAll and pickRandom on an empty list.   *)
(* Starting a second run while one is active is what PickDisabled is       *)
(* about, and is left to Spec.                                             *)
(***************************************************************************)
CallAdd == addOption

CallRemove == \E index \in (-1)..Len(options) : removeOption(index)

CallClearAll == clearAll

CallPick == (Len(options) = 0 \/ ~isSpinning) /\ pickRandom

NextDirect ==
    \/ InputChange
    \/ CallAdd
    \/ CallRemove
    \/ CallClearAll
    \/ CallPick
    \/ TimerFire

SpecDirect == Init /\ [][NextDirect]_vars

\* The same controls with the texts typed without blanks around them
\* (SpecTexts), and with setInterval firing the callback of an active timer
\* again and again (LiveSpec).
Texts == {<<>>} \cup {<<c>> : c \in Letters}

TypeText == \E s \in Texts : setInputValue(s)

NextLive ==
    \/ TypeText
    \/ AddClick
    \/ EnterKey
    \/ RemoveClick
    \/ ClearAllClick
    \/ PickClick
    \/ TimerFire

SpecTexts == Init /\ [][NextLive]_vars

LiveSpec == SpecTexts /\ WF_vars(TimerFire)

(***************************************************************************)
(* Properties                                                              *)
(***************************************************************************)
Range(arr) == {arr[i] : i \in 1..Len(arr)}

InRange(arr, index) == index >= 0 /\ index < Len(arr)

----
\* C1: in every reachable state the entries of the option list are pairwise
\* distinct, non-empty, and have no blank at either end (each equals its
\* own trimmed form).
C1_OptionsUniqueTrimmed ==
    \A i \in 1..Len(options) :
        /\ options[i] # <<>>
        /\ Head(options[i]) # Space
        /\ options[i][Len(options[i])] # Space
        /\ \A j \in 1..Len(options) : i # j => options[i] # options[j]

\* a full list, whose last entry was just accepted by addOption
C1_Witness ==
    /\ lastCall.op = "addOption"
    /\ Len(options) = Cardinality(Letters)
    /\ toasts = <<ToastAdded(options[Len(options)])>>

----
\* C2: with the timer firing again and again, every run settles: whenever
\* spinning is true it later becomes false with selected-option set, and the
\* step that ends a run sets spinning to false and selected-option to an
\* entry of the list the run was started with, whatever events interleave.
C2_PickSettles ==
    /\ [][(timers # <<>> /\ Len(timers') < Len(timers))
            => /\ isSpinning' = FALSE
               /\ \E k \in 1..Len(timers) : selectedOption' \in Range(timers[k].options)
               /\ selectedOption' # Null]_vars
    /\ [][(Len(timers') > Len(timers))
            => /\ options # <<>>
               /\ timers'[Len(timers')].options = options]_vars
    /\ (isSpinning ~> (~isSpinning /\ selectedOption # Null /\ timers = <<>>))

\* a run has just settled although the list was emptied while it was spinning
C2_Witness ==
    /\ lastCall.op = "spinInterval"
    /\ ~isSpinning
    /\ toasts = <<ToastResult(selectedOption)>>
    /\ options = <<>>

----
\* C3 as claimed: pick on an empty list starts no timer, fires one "no
\* options available" notification and leaves spinning=false and
\* selected-option absent, in every reachable state with an empty list.
C3_PickEmptyIdleAbsent ==
    [][(lastCall'.op = "pickRandom" /\ Len(options) = 0)
        => /\ timers' = timers
           /\ toasts' = <<ToastNoOptions>>
           /\ isSpinning' = FALSE
           /\ selectedOption' = Null]_vars

\* C3 as amended: pick on an empty list starts no timer, fires one "no
\* options available" notification and changes no state: spinning and
\* selected-option keep the values they had.
C3_PickEmptyChangesNothing ==
    [][(lastCall'.op = "pickRandom" /\ Len(options) = 0)
        => /\ timers' = timers
           /\ toasts' = <<ToastNoOptions>>
           /\ isSpinning' = isSpinning
           /\ selectedOption' = selectedOption
           /\ options' = options
           /\ inputValue' = inputValue]_vars

\* pick was called on an empty list while an earlier winner was still shown
C3_Witness ==
    /\ lastCall.op = "pickRandom"
    /\ options = <<>>
    /\ toasts = <<ToastNoOptions>>
    /\ selectedOption # Null
    /\ ~isSpinning

----
\* C4: at no time are two timer sequences active together; the pick button
\* is disabled while spinning or while the list is empty.
C4_OneTimerAtMost == Len(timers) <= 1

\* a run is in progress, its timer has fired, and the list is not empty
C4_Witness ==
    /\ isSpinning
    /\ Len(timers) = 1
    /\ timers[1].currentSpin >= 1
    /\ options # <<>>

----
\* C5: clearAll, in any state, leaves the option list empty, selected-option
\* absent, the input text empty, and fires one "cleared" notification.
C5_ClearAllResets ==
    lastCall.op = "clearAll"
        => /\ options = <<>>
           /\ selectedOption = Null
           /\ inputValue = <<>>
           /\ toasts = <<ToastCleared>>

\* clearAll was called during a run whose timer had already fired
C5_Witness ==
    /\ lastCall.op = "clearAll"
    /\ isSpinning
    /\ timers # <<>>
    /\ timers[1].currentSpin >= 1

----
\* C6 as claimed: whenever the option list becomes empty, by clear-all or by
\* removing its remaining entries, selected-option is reset to absent, so
\* that no idle state has an empty option list together with a
\* selected-option.
C6_EmptyListNoSelection ==
    [][(~isSpinning /\ options # <<>> /\ options' = <<>>) => selectedOption' = Null]_vars

\* C6 as amended: when the option list becomes empty by clear-all,
\* selected-option is reset to absent; when it becomes empty by removing its
\* last entry, selected-option keeps the value it had.
C6_EmptiedByClearAllOrRemove ==
    [][(options # <<>> /\ options' = <<>>)
        => \/ lastCall'.op = "clearAll" /\ selectedOption' = Null
           \/ lastCall'.op = "removeOption" /\ selectedOption' = selectedOption]_vars

\* idle, the last entry was just removed and the earlier winner is still shown
C6_Witness ==
    /\ lastCall.op = "removeOption"
    /\ options = <<>>
    /\ ~isSpinning
    /\ selectedOption # Null

----
\* C7: while spinning is true the option list is not mutated: the list the
\* state holds is the list the run was started with and draws from.
C7_ListFixedWhileSpinning ==
    isSpinning => \A k \in 1..Len(timers) : timers[k].options = options

----
\* C8: removeOption(i) with 0 <= i < length shortens the list by one, removes
\* the entry at position i, keeps the other entries in their order, and fires
\* one "removed" notification naming the removed value.
C8_RemoveInRange ==
    [][(lastCall'.op = "removeOption" /\ InRange(options, lastCall'.index))
        => LET i == lastCall'.index IN
           /\ Len(options') = Len(options) - 1
           /\ \A j \in 1..i : options'[j] = options[j]
           /\ \A j \in (i + 1)..Len(options') : options'[j] = options[j + 1]
           /\ toasts' = <<ToastRemoved(options[i + 1])>>]_vars

\* an entry other than the last was just removed and two entries remain
C8_Witness ==
    /\ lastCall.op = "removeOption"
    /\ Len(options) = 2
    /\ lastCall.index \in 0..1
    /\ toasts # <<>>
    /\ toasts[1].names \notin Range(options) \cup {Undefined}

----
\* C9: removeOption(i) with i < 0 or i >= length is a no-op: the option list,
\* selected-option, the spinning flag and the input text are unchanged and
\* no "removed" notification is fired.
C9_RemoveOutOfRangeNoOp ==
    [][(lastCall'.op = "removeOption" /\ ~InRange(options, lastCall'.index))
        => /\ UNCHANGED <<options, selectedOption, isSpinning, inputValue>>
           /\ \A n \in 1..Len(toasts') : toasts'[n].title # "Option removed"]_vars

----
\* C10: addOption with an input text whose trimmed form is already in the
\* list fires exactly one "duplicate" notification and changes no state.
C10_DuplicateChangesNothing ==
    [][(lastCall'.op = "addOption" /\ \E i \in 1..Len(options) : options[i] = trim(inputValue))
        => /\ toasts' = <<ToastDuplicate>>
           /\ UNCHANGED <<options, inputValue, selectedOption, isSpinning, timers>>]_vars

\* a text with blanks around it was just rejected as a duplicate
C10_Witness ==
    /\ lastCall.op = "addOption"
    /\ toasts = <<ToastDuplicate>>
    /\ inputValue # trim(inputValue)
    /\ inputValue \notin Range(options)
    /\ trim(inputValue) \in Range(options)

----
\* C11: addOption with an input text that is empty or made of blanks only
\* changes no state and fires no notification at all.
C11_BlankIgnored ==
    [][(lastCall'.op = "addOption" /\ \A i \in 1..Len(inputValue) : inputValue[i] = Space)
        => /\ toasts' = <<>>
           /\ UNCHANGED <<options, inputValue, selectedOption, isSpinning, timers>>]_vars

\* addOption was just called with a text of blanks, the list not being empty
C11_Witness ==
    /\ lastCall.op = "addOption"
    /\ inputValue # <<>>
    /\ \A i \in 1..Len(inputValue) : inputValue[i] = Space
    /\ options # <<>>

----
\* C12: addOption with a non-blank text whose trimmed form is not in the
\* list appends the trimmed text at the end of the list (the earlier entries
\* keep their positions), clears the input text and fires one "success"
\* notification naming it.
C12_AppendsTrimmed ==
    [][(/\ lastCall'.op = "addOption"
        /\ trim(inputValue) # <<>>
        /\ \A i \in 1..Len(options) : options[i] # trim(inputValue))
        => /\ Len(options') = Len(options) + 1
           /\ \A i \in 1..Len(options) : options'[i] = options[i]
           /\ options'[Len(options')] = trim(inputValue)
           /\ inputValue' = <<>>
           /\ toasts' = <<ToastAdded(trim(inputValue))>>]_vars

\* the third entry was just appended after two earlier ones
C12_Witness ==
    /\ lastCall.op = "addOption"
    /\ Len(options) = 3
    /\ toasts = <<ToastAdded(options[3])>>
    /\ inputValue = <<>>

----
----
\* C14: each run fires exactly one "result" notification, in the step that
\* sets spinning to false, naming the value selected-option then holds; no
\* step other than a settlement fires a "result" notification.
C14_OneResultAtSettlement ==
    /\ [][(isSpinning /\ ~isSpinning') => toasts' = <<ToastResult(selectedOption')>>]_vars
    /\ [][(\E n \in 1..Len(toasts') : toasts'[n].title = "Choice selected!")
            => (isSpinning /\ ~isSpinning' /\ lastCall'.op = "spinInterval")]_vars

\* a run over at least two entries has just settled and announced its winner
C14_Witness ==
    /\ lastCall.op = "spinInterval"
    /\ toasts = <<ToastResult(selectedOption)>>
    /\ Len(options) >= 2
    /\ selectedOption \in Range(options)

----
\* C15: each run makes exactly 20 tick draws, one per firing of its timer;
\* the 20th firing makes one more draw, the final result, which is the value
\* written and need not equal the 20th tick's draw; that firing cancels the
\* timer, and no callback runs without an active timer.
C15_TwentyTicksThenFinal ==
    /\ [][lastCall'.op = "spinInterval" => (isSpinning /\ Len(timers) = 1)]_vars
    /\ [][Len(timers') > Len(timers) => timers'[Len(timers')].currentSpin = 0]_vars
    /\ [][(lastCall'.op = "spinInterval" /\ Len(timers') = Len(timers))
            => /\ timers'[1].currentSpin = timers[1].currentSpin + 1
               /\ timers'[1].currentSpin < 20
               /\ Len(lastCall'.draws) = 1
               /\ selectedOption' = at(timers[1].options, lastCall'.draws[1])]_vars
    /\ [][Len(timers') < Len(timers)
            => /\ lastCall'.op = "spinInterval"
               /\ timers[1].currentSpin + 1 = 20
               /\ timers' = <<>>
               /\ Len(lastCall'.draws) = 2
               /\ selectedOption' = at(timers[1].options, lastCall'.draws[2])]_vars

\* a run has just settled on a final draw that differs from its 20th tick's
C15_Witness ==
    /\ lastCall.op = "spinInterval"
    /\ ~isSpinning
    /\ Len(lastCall.draws) = 2
    /\ lastCall.draws[1] # lastCall.draws[2]
    /\ timers = <<>>

----
\* C16: selected-option is written only by the picker and by clearAll:
\* addOption (accepted, duplicate or blank), removeOption (also of the entry
\* shown as selected) and a change of the input text leave it unchanged.
C16_SelectionFrame ==
    /\ [][lastCall'.op \in {"addOption", "removeOption", "setInputValue"}
            => selectedOption' = selectedOption]_vars
    /\ [][selectedOption' # selectedOption
            => lastCall'.op \in {"pickRandom", "spinInterval", "clearAll"}]_vars

\* idle, the entry shown as the winner was just removed, others remain
C16_Witness ==
    /\ lastCall.op = "removeOption"
    /\ toasts = <<ToastRemoved(selectedOption)>>
    /\ ~isSpinning
    /\ options # <<>>
    /\ selectedOption \notin Range(options)

----
\* C17: once a run has started, no add, remove, clear-all or input-change
\* event cancels its timer or sets spinning to false: spinning stays true
\* until the run's own 20th tick, which alone ends the run.
C17_NoAbortMidSpin ==
    /\ [][(isSpinning /\ lastCall'.op # "spinInterval")
            => (isSpinning' /\ timers' = timers)]_vars
    /\ [][(isSpinning /\ ~isSpinning')
            => (lastCall'.op = "spinInterval" /\ timers[1].currentSpin = 19)]_vars
    /\ [][(isSpinning /\ lastCall'.op = "spinInterval" /\ timers[1].currentSpin < 19)
            => isSpinning']_vars

\* the list was emptied by a removal during a run that is still spinning
C17_Witness ==
    /\ isSpinning
    /\ lastCall.op = "removeOption"
    /\ options = <<>>
    /\ Len(timers) = 1
    /\ timers[1].currentSpin >= 1

----
\* C18: every value a tick or the settlement writes to selected-option, and
\* the winner the result notification names, is an entry of the option list
\* as it was when the run's pick was invoked; add, remove and clear-all
\* during the run do not change what the run draws from, so the value
\* written may be absent from the current list.
C18_DrawsFromCapturedList ==
    /\ [][Len(timers') > Len(timers) => timers'[Len(timers')].options = options]_vars
    /\ [][(timers # <<>> /\ Len(timers') = Len(timers))
            => timers'[1].options = timers[1].options]_vars
    /\ [][lastCall'.op = "spinInterval"
            => /\ selectedOption' \in Range(timers[1].options)
               /\ \A n \in 1..Len(toasts') : toasts'[n].names \in Range(timers[1].options)]_vars

\* a tick has just written a value that the current list does not hold
C18_Witness ==
    /\ lastCall.op = "spinInterval"
    /\ isSpinning
    /\ options # <<>>
    /\ selectedOption \notin Range(options)

====
